---- MODULE Spec2Model ----
(***************************************************************************)
(* Model of nommy (text::Tag, text::OneOf, text::OneInRange) and of the    *)
(* peek/parse procedures that nommy-derive emits for an enum.              *)
(*                                                                         *)
(* A char is its Unicode scalar value, a string is a sequence of chars.    *)
(* A buffer is a read position `pos` over the token sequence `input`; a    *)
(* cursor is a second read position forked from it.                        *)
(***************************************************************************)
EXTENDS Integers, Sequences, FiniteSets, TLC

VARIABLES input, pos, cur, last, decl, derived, pc, vi

vars == <<input, pos, cur, last, decl, derived, pc, vi>>

\* ---------------------------------------------------------------- bounds
MaxLen == 3

\* ------------------------------------------------------- alphabet, inputs
\* '"' (34), 'a' (97), 'é' (233, two bytes in UTF-8)
Chars == {34, 97, 233}

RECURSIVE SeqsUpTo(_)
SeqsUpTo(n) ==
    IF n = 0 THEN {<<>>}
    ELSE LET S == SeqsUpTo(n - 1)
         IN  S \cup {Append(s, c) : s \in {t \in S : Len(t) = n - 1}, c \in Chars}

Inputs == SeqsUpTo(MaxLen)

\* the literal tags, character sets and ranges the types are instantiated at
Tags == {<<>>, <<97>>, <<34>>, <<233>>, <<97, 34>>, <<233, 97>>}
CharSets == {<<97, 34>>, <<233>>}
Ranges == {[lo |-> 97, hi |-> 122], [lo |-> 48, hi |-> 57]}

Min(a, b) == IF a < b THEN a ELSE b

None == [some |-> FALSE]
Some(x) == [some |-> TRUE, v |-> x]

\* ------------------------------------------------------ strings, messages
\* str::len counts UTF-8 bytes
Utf8Len(c) == IF c < 128 THEN 1 ELSE IF c < 2048 THEN 2 ELSE IF c < 65536 THEN 3 ELSE 4

RECURSIVE StrLen(_)
StrLen(s) == IF s = <<>> THEN 0 ELSE Utf8Len(Head(s)) + StrLen(Tail(s))

\* {:?} of a str: quoted, with '"' and '\' escaped
EscapeStrChar(c) == IF c = 34 \/ c = 92 THEN <<92, c>> ELSE <<c>>

RECURSIVE EscapeStr(_)
EscapeStr(s) == IF s = <<>> THEN <<>> ELSE EscapeStrChar(Head(s)) \o EscapeStr(Tail(s))

DebugStr(s) == <<34>> \o EscapeStr(s) \o <<34>>

\* {:?} of a char: single-quoted, with ''' and '\' escaped
DebugChar(c) == <<39>> \o (IF c = 39 \/ c = 92 THEN <<92, c>> ELSE <<c>>) \o <<39>>

\* {:?} of a RangeInclusive<char>
DebugRange(r) == DebugChar(r.lo) \o <<46, 46, 61>> \o DebugChar(r.hi)

\* eyre::eyre!(fmt, args...): the format string and its rendered arguments
Eyre(fmt, args) == [fmt |-> fmt, args |-> args]

\* ------------------------------------------------------- buffer / cursor
\* next() on a read position p: the token and the new position
Next_(p) ==
    IF p < Len(input) THEN [tok |-> Some(input[p + 1]), end |-> p + 1]
    ELSE [tok |-> None, end |-> p]

\* input.take(n) driven to exhaustion from position p: the tokens it yields
Take(p, n) == SubSeq(input, p + 1, p + Min(n, Len(input) - p))

\* --------------------------------------------------------------- text::Tag
\* TAG.chars().eq(input.take(TAG.len())): i is the next char of TAG, p the
\* read position, n what is left of the take
RECURSIVE IterEq(_, _, _, _)
IterEq(TAG, i, p, n) ==
    LET y == IF n = 0 THEN [tok |-> None, end |-> p] ELSE Next_(p)
    IN  IF i > Len(TAG)
        THEN [ret |-> ~y.tok.some, end |-> y.end]
        ELSE IF ~y.tok.some THEN [ret |-> FALSE, end |-> y.end]
        ELSE IF y.tok.v # TAG[i] THEN [ret |-> FALSE, end |-> y.end]
        ELSE IterEq(TAG, i + 1, y.end, n - 1)

\* variant of Tag_peek: compares only the tokens the input still has
Tag_peek_prefix(TAG, p) ==
    LET s == Take(p, Len(TAG))
    IN  [ret |-> s = SubSeq(TAG, 1, Len(s)), end |-> p + Len(s)]

Tag_peek(TAG, p) == IterEq(TAG, 1, p, StrLen(TAG))

\* variant of Tag_parse: accepts an input that ends inside the tag
Tag_parse_prefix(TAG, p) ==
    LET s == Take(p, StrLen(TAG))
    IN  IF Len(s) <= Len(TAG) /\ s = SubSeq(TAG, 1, Len(s))
        THEN [ok |-> TRUE, val |-> [ty |-> "Tag", tag |-> TAG], end |-> p + Len(s)]
        ELSE [ok |-> FALSE,
              err |-> Eyre("failed to parse tag {:?}, found {:?}", <<DebugStr(TAG), DebugStr(s)>>),
              end |-> p + Len(s)]

Tag_parse(TAG, p) ==
    LET s == Take(p, StrLen(TAG))
    IN  IF TAG = s
        THEN [ok |-> TRUE, val |-> [ty |-> "Tag", tag |-> TAG], end |-> p + Len(s)]
        ELSE [ok |-> FALSE,
              err |-> Eyre("failed to parse tag {:?}, found {:?}", <<DebugStr(TAG), DebugStr(s)>>),
              end |-> p + Len(s)]

\* ------------------------------------------------------------- text::OneOf
Contains(CHARS, c) == \E i \in 1..Len(CHARS) : CHARS[i] = c

OneOf_peek(CHARS, p) ==
    LET n == Next_(p)
    IN  IF n.tok.some THEN [ret |-> Contains(CHARS, n.tok.v), end |-> n.end]
        ELSE [ret |-> FALSE, end |-> n.end]

\* variant of OneOf_parse: CHARS.starts_with(c) in place of CHARS.contains(c)
OneOf_parse_first(CHARS, p) ==
    LET n == Next_(p)
    IN  IF n.tok.some
        THEN IF CHARS # <<>> /\ CHARS[1] = n.tok.v
             THEN [ok |-> TRUE, val |-> [ty |-> "OneOf", c |-> n.tok.v], end |-> n.end]
             ELSE [ok |-> FALSE,
                   err |-> Eyre("error parsing one of {:?}, found {:?}",
                                <<DebugStr(CHARS), DebugChar(n.tok.v)>>),
                   end |-> n.end]
        ELSE [ok |-> FALSE,
              err |-> Eyre("error parsing one of {:?}, reached EOF", <<DebugStr(CHARS)>>),
              end |-> n.end]

OneOf_parse(CHARS, p) ==
    LET n == Next_(p)
    IN  IF n.tok.some
        THEN IF Contains(CHARS, n.tok.v)
             THEN [ok |-> TRUE, val |-> [ty |-> "OneOf", c |-> n.tok.v], end |-> n.end]
             ELSE [ok |-> FALSE,
                   err |-> Eyre("error parsing one of {:?}, found {:?}",
                                <<DebugStr(CHARS), DebugChar(n.tok.v)>>),
                   end |-> n.end]
        ELSE [ok |-> FALSE,
              err |-> Eyre("error parsing one of {:?}, reached EOF", <<DebugStr(CHARS)>>),
              end |-> n.end]

\* OneOf::process
OneOf_process(v) == v.c

\* -------------------------------------------------------- text::OneInRange
RangeContains(r, c) == r.lo <= c /\ c <= r.hi

OneInRange_peek(CHAR_RANGE, p) ==
    LET n == Next_(p)
    IN  IF n.tok.some THEN [ret |-> RangeContains(CHAR_RANGE, n.tok.v), end |-> n.end]
        ELSE [ret |-> FALSE, end |-> n.end]

OneInRange_parse(CHAR_RANGE, p) ==
    LET n == Next_(p)
    IN  IF n.tok.some
        THEN IF RangeContains(CHAR_RANGE, n.tok.v)
             THEN [ok |-> TRUE, val |-> [ty |-> "OneInRange", c |-> n.tok.v], end |-> n.end]
             ELSE [ok |-> FALSE,
                   err |-> Eyre("could not parse char in range {:?}, found {:?}",
                                <<DebugRange(CHAR_RANGE), DebugChar(n.tok.v)>>),
                   end |-> n.end]
        ELSE [ok |-> FALSE,
              err |-> Eyre("could not parse char in range {:?}, reached EOF",
                           <<DebugRange(CHAR_RANGE)>>),
              end |-> n.end]

\* ------------------------------------------------ type-refs of the fields
TagTy(T) == [kind |-> "Tag", arg |-> T]
OneOfTy(C) == [kind |-> "OneOf", arg |-> C]
OneInRangeTy(lo, hi) == [kind |-> "OneInRange", arg |-> [lo |-> lo, hi |-> hi]]
\* a field type of the user's own, bound only by `Peek` and `Parse`: its peek
\* is Tag<P>'s and its parse is Tag<T>'s
UserTy(P, T) == [kind |-> "User", arg |-> [peek |-> P, parse |-> T]]

\* <ty as Peek>::peek / <ty as Parse>::parse
Peek(ty, p) ==
    CASE ty.kind = "Tag" -> Tag_peek(ty.arg, p)
      [] ty.kind = "OneOf" -> OneOf_peek(ty.arg, p)
      [] ty.kind = "OneInRange" -> OneInRange_peek(ty.arg, p)
      [] ty.kind = "User" -> Tag_peek(ty.arg.peek, p)

Parse(ty, p) ==
    CASE ty.kind = "Tag" -> Tag_parse(ty.arg, p)
      [] ty.kind = "OneOf" -> OneOf_parse(ty.arg, p)
      [] ty.kind = "OneInRange" -> OneInRange_parse(ty.arg, p)
      [] ty.kind = "User" -> Tag_parse(ty.arg.parse, p)

\* Buffer::cursor / Cursor::cursor: a read position forked at p
Cursor(p) == p

\* ---------------------------------------------------- the declared enums
\* syn::DataEnum: variants in declaration order, each with syn::Fields
Variant(name, fields, tys) == [ident |-> name, fields |-> fields, tys |-> tys]

Decls == {
    [name |-> "Token",
     variants |-> << Variant("Plus", "Unnamed", <<TagTy(<<97>>)>>),
                     Variant("Minus", "Unnamed", <<OneOfTy(<<97, 34>>)>>) >>],
    [name |-> "Item",
     variants |-> << Variant("Pair", "Named", <<TagTy(<<97>>), OneOfTy(<<97, 34>>)>>),
                     Variant("Accent", "Unnamed", <<TagTy(<<233>>)>>),
                     Variant("Lower", "Unnamed", <<OneInRangeTy(97, 122)>>) >>],
    [name |-> "Opt",
     variants |-> << Variant("Accent", "Unnamed", <<TagTy(<<233>>), TagTy(<<97>>)>>),
                     Variant("Nil", "Unnamed", <<>>),
                     Variant("Plus", "Unnamed", <<TagTy(<<97>>)>>) >>],
    [name |-> "Rec",
     variants |-> << Variant("Minus", "Unnamed", <<OneOfTy(<<34>>)>>),
                     Variant("Nil", "Named", <<>>) >>],
    [name |-> "Stmt",
     variants |-> << Variant("Call", "Unnamed", <<UserTy(<<97>>, <<97, 34>>)>>),
                     Variant("Plus", "Unnamed", <<TagTy(<<97>>)>>) >>],
    [name |-> "Flag",
     variants |-> << Variant("Plus", "Unnamed", <<TagTy(<<97>>)>>),
                     Variant("Off", "Unit", <<>>) >>]
}

\* str::to_lowercase on the variant identifiers
ToLowercase(id) ==
    CASE id = "Plus" -> "plus"
      [] id = "Minus" -> "minus"
      [] id = "Pair" -> "pair"
      [] id = "Accent" -> "accent"
      [] id = "Lower" -> "lower"
      [] id = "Nil" -> "nil"
      [] id = "Off" -> "off"
      [] id = "Call" -> "call"

\* format_ident!("__peek_{}", ..) / format_ident!("__parse_{}", ..)
PeekIdent(id) == <<"__peek_", ToLowercase(id)>>
ParseIdent(id) == <<"__parse_", ToLowercase(id)>>

\* variant of EnumInput_new: a unit variant is taken as a tuple without fields
EnumInput_new_unit(d) ==
    [panic |-> FALSE,
     name |-> d.name,
     fields |-> [i \in 1..Len(d.variants) |->
                   [name |-> d.variants[i].ident,
                    field_type |-> [kind |-> IF d.variants[i].fields = "Named"
                                             THEN "Named" ELSE "Tuple",
                                    fields |-> d.variants[i].tys]]]]

\* ------------------------------------------------------- EnumInput::new
\* panics on a unit variant, otherwise the fields in declaration order
EnumInput_new(d) ==
    IF \E i \in 1..Len(d.variants) : d.variants[i].fields = "Unit"
    THEN [panic |-> TRUE, msg |-> "Unit variants not supported in enum parse derive"]
    ELSE [panic |-> FALSE,
          name |-> d.name,
          fields |-> [i \in 1..Len(d.variants) |->
                        [name |-> d.variants[i].ident,
                         field_type |-> [kind |-> IF d.variants[i].fields = "Named"
                                                  THEN "Named" ELSE "Tuple",
                                         fields |-> d.variants[i].tys]]]]

\* EnumPeek::enrich: fn_impl tests the peek functions in the order of the
\* fields; peek_fn_names / peek_fn_impl are pushed in the same order
EnumPeek_enrich(fields) ==
    [fn_impl |-> [i \in 1..Len(fields) |-> PeekIdent(fields[i].name)],
     peek_fn_names |-> [i \in 1..Len(fields) |-> PeekIdent(fields[i].name)],
     peek_fn_impl |-> [i \in 1..Len(fields) |-> fields[i].field_type.fields]]

\* variant of EnumParse_enrich: the chain tests the fields in reverse order
EnumParse_enrich_reversed(fields) ==
    [fn_impl |-> [i \in 1..Len(fields) |->
                    [peek |-> PeekIdent(fields[Len(fields) + 1 - i].name),
                     parse |-> ParseIdent(fields[Len(fields) + 1 - i].name)]],
     parse_fn_names |-> [i \in 1..Len(fields) |-> ParseIdent(fields[i].name)],
     parse_fn_impl |-> [i \in 1..Len(fields) |->
                    [type_name |-> IF fields[i].field_type.kind = "Named" THEN "struct" ELSE "tuple",
                     variant_name |-> fields[i].name,
                     fields |-> fields[i].field_type.fields]]]

\* variant of EnumParse_enrich: the chain leaves out the last field
EnumParse_enrich_short(fields) ==
    [fn_impl |-> [i \in 1..(Len(fields) - 1) |->
                    [peek |-> PeekIdent(fields[i].name), parse |-> ParseIdent(fields[i].name)]],
     parse_fn_names |-> [i \in 1..Len(fields) |-> ParseIdent(fields[i].name)],
     parse_fn_impl |-> [i \in 1..Len(fields) |->
                    [type_name |-> IF fields[i].field_type.kind = "Named" THEN "struct" ELSE "tuple",
                     variant_name |-> fields[i].name,
                     fields |-> fields[i].field_type.fields]]]

\* EnumParse::enrich: one `if peek(&mut input.cursor()) { parse(input) } else`
\* per field, in the order of the fields
EnumParse_enrich(fields) ==
    [fn_impl |-> [i \in 1..Len(fields) |->
                    [peek |-> PeekIdent(fields[i].name), parse |-> ParseIdent(fields[i].name)]],
     parse_fn_names |-> [i \in 1..Len(fields) |-> ParseIdent(fields[i].name)],
     parse_fn_impl |-> [i \in 1..Len(fields) |->
                    [type_name |-> IF fields[i].field_type.kind = "Named" THEN "struct" ELSE "tuple",
                     variant_name |-> fields[i].name,
                     fields |-> fields[i].field_type.fields]]]

\* EnumInput::process and the ToTokens impls: what the derive emits
EnumInput_process(inp) ==
    [state |-> "emitted",
     name |-> inp.name,
     peek_impl |-> EnumPeek_enrich(inp.fields),
     parse_impl |-> EnumParse_enrich(inp.fields),
     error_message |-> Eyre("no variants of {} could be parsed", <<inp.name>>)]

Declared == [state |-> "declared"]
Panicked(msg) == [state |-> "panicked", msg |-> msg]

\* the derive macro on an enum
DeriveEnum(d) ==
    LET inp == EnumInput_new(d)
    IN  IF inp.panic THEN Panicked(inp.msg) ELSE EnumInput_process(inp)

\* ------------------------------------------- the emitted variant functions
\* a call by name resolves to the emitted function of that name
FnIndex(names, id) == CHOOSE j \in 1..Len(names) : names[j] = id

\* one field of a variant's peek: peek the field's type; on failure return
\* false; on success parse the field from the cursor to advance past it
FieldPeek(ty, c) ==
    LET r == Peek(ty, Cursor(c))
    IN  IF ~r.ret THEN [ret |-> FALSE, end |-> c]
        ELSE LET q == Parse(ty, c) IN [ret |-> TRUE, end |-> q.end]

\* fn __peek_x(input: &mut Cursor) -> bool { #peek_fn_impl true }
RECURSIVE PeekFields(_, _, _)
PeekFields(tys, i, c) ==
    IF i > Len(tys) THEN [ret |-> TRUE, end |-> c]
    ELSE LET r == FieldPeek(tys[i], c)
         IN  IF ~r.ret THEN [ret |-> FALSE, end |-> r.end]
             ELSE PeekFields(tys, i + 1, r.end)

VariantPeekFn(e, id, c) ==
    PeekFields(e.peek_impl.peek_fn_impl[FnIndex(e.peek_impl.peek_fn_names, id)], 1, c)

\* one field of a variant's parse: delegated to the field's type, an error
\* is wrapped with the context of the field
FieldParse(ctx, ty, i, p) ==
    LET r == Parse(ty, p)
    IN  IF r.ok THEN r
        ELSE [ok |-> FALSE, err |-> [context |-> <<"field", i, ctx>>, source |-> r.err],
              end |-> r.end]

\* fn __parse_x(input: &mut Buffer) -> Result<Self> { #parse_fn_impl }
RECURSIVE ParseFields(_, _, _, _, _)
ParseFields(ctx, tys, i, p, vals) ==
    IF i > Len(tys)
    THEN [ok |-> TRUE, val |-> [enum |-> ctx[2], variant |-> ctx[3], of |-> ctx[1],
                                fields |-> vals], end |-> p]
    ELSE LET r == FieldParse(ctx, tys[i], i, p)
         IN  IF ~r.ok THEN r
             ELSE ParseFields(ctx, tys, i + 1, r.end, Append(vals, r.val))

VariantParseFn(e, id, p) ==
    LET f == e.parse_impl.parse_fn_impl[FnIndex(e.parse_impl.parse_fn_names, id)]
    IN  ParseFields(<<f.type_name, e.name, f.variant_name>>, f.fields, 1, p, <<>>)

\* ------------------------------------------------ the emitted Peek / Parse
\* if true && !peek_1(&mut input.cursor()) && ... { return false; } true
RECURSIVE NonePeeks(_, _, _)
NonePeeks(e, i, c) ==
    IF i > Len(e.peek_impl.fn_impl) THEN TRUE
    ELSE /\ ~VariantPeekFn(e, e.peek_impl.fn_impl[i], Cursor(c)).ret
         /\ NonePeeks(e, i + 1, c)

\* variant of Enum_peek: only the first variant's peek is tested
Enum_peek_first(e, c) ==
    [ret |-> /\ Len(e.peek_impl.fn_impl) >= 1
             /\ VariantPeekFn(e, e.peek_impl.fn_impl[1], Cursor(c)).ret,
     end |-> c]

\* variant of Enum_peek: the variant peeks run on the argument cursor itself
Enum_peek_advance(e, c) ==
    LET M == {i \in 1..Len(e.peek_impl.fn_impl) : VariantPeekFn(e, e.peek_impl.fn_impl[i], c).ret}
    IN  IF M = {} THEN [ret |-> FALSE, end |-> c]
        ELSE [ret |-> TRUE,
              end |-> VariantPeekFn(e, e.peek_impl.fn_impl[CHOOSE i \in M : \A j \in M : i <= j], c).end]

Enum_peek(e, c) == [ret |-> ~NonePeeks(e, 1, c), end |-> c]

\* variant of EnumParse_peek: the variant's peek runs on the buffer itself
EnumParse_peek_buffer(e, i, p) ==
    LET r == VariantPeekFn(e, e.parse_impl.fn_impl[i].peek, p)
    IN  [ret |-> r.ret, buf |-> r.end]

\* the condition of the i-th `if` of parse: the variant's peek on a cursor
\* forked from the buffer; buf is the buffer's read position afterwards
EnumParse_peek(e, i, p) ==
    [ret |-> VariantPeekFn(e, e.parse_impl.fn_impl[i].peek, Cursor(p)).ret, buf |-> p]

\* variant of EnumParse_parse: a failure of the variant's parse is replaced
\* by the error of the final else
EnumParse_parse_swallow(e, i, p) ==
    LET r == VariantParseFn(e, e.parse_impl.fn_impl[i].parse, p)
    IN  IF r.ok THEN r ELSE [ok |-> FALSE, err |-> e.error_message, end |-> r.end]

\* the body of the i-th `if` of parse: the variant's parse on the buffer
EnumParse_parse(e, i, p) == VariantParseFn(e, e.parse_impl.fn_impl[i].parse, p)

\* the final else of parse
EnumParse_else(e) == [ok |-> FALSE, err |-> e.error_message]

\* --------------------------------------------------------------- the state
NoCursor == [live |-> FALSE, at |-> 0]
LiveCursor(p) == [live |-> TRUE, at |-> p]

Call(op, arg, start, end, ok, out) ==
    [op |-> op, arg |-> arg, start |-> start, end |-> end, ok |-> ok, out |-> out]

Init ==
    /\ input \in Inputs
    /\ pos = 0
    /\ cur = NoCursor
    /\ last = Call("into_buf", <<>>, 0, 0, TRUE, None)
    /\ decl \in Decls
    /\ derived = Declared
    /\ pc = "idle"
    /\ vi = 0

\* #[derive(Parse)] on the declared enum
Derive ==
    /\ derived.state = "declared"
    /\ derived' = DeriveEnum(decl)
    /\ UNCHANGED <<input, pos, cur, last, decl, pc, vi>>

\* ---- the buffer
BufNext ==
    /\ pc = "idle"
    /\ LET n == Next_(pos)
       IN  /\ pos' = n.end
           /\ last' = Call("Buffer::next", <<>>, pos, n.end, n.tok.some, n.tok)
    /\ cur' = NoCursor
    /\ UNCHANGED <<input, decl, derived, pc, vi>>

BufCursor ==
    /\ pc = "idle"
    /\ cur' = LiveCursor(Cursor(pos))
    /\ last' = Call("Buffer::cursor", <<>>, pos, pos, TRUE, None)
    /\ UNCHANGED <<input, pos, decl, derived, pc, vi>>

CursorNext ==
    /\ pc = "idle"
    /\ cur.live
    /\ LET n == Next_(cur.at)
       IN  /\ cur' = LiveCursor(n.end)
           /\ last' = Call("Cursor::next", <<>>, cur.at, n.end, n.tok.some, n.tok)
    /\ UNCHANGED <<input, pos, decl, derived, pc, vi>>

\* ---- a primitive's parse on the buffer
ParseOnBuffer(op, arg, r) ==
    /\ pc = "idle"
    /\ pos' = r.end
    /\ last' = Call(op, arg, pos, r.end, r.ok, IF r.ok THEN r.val ELSE r.err)
    /\ cur' = NoCursor
    /\ UNCHANGED <<input, decl, derived, pc, vi>>

\* ---- a primitive's peek on the cursor
PeekOnCursor(op, arg, r) ==
    /\ pc = "idle"
    /\ cur.live
    /\ cur' = LiveCursor(r.end)
    /\ last' = Call(op, arg, cur.at, r.end, r.ret, None)
    /\ UNCHANGED <<input, pos, decl, derived, pc, vi>>

TagParse == \E T \in Tags : ParseOnBuffer("Tag::parse", T, Tag_parse(T, pos))
TagPeek == \E T \in Tags : PeekOnCursor("Tag::peek", T, Tag_peek(T, cur.at))
OneOfParse == \E C \in CharSets : ParseOnBuffer("OneOf::parse", C, OneOf_parse(C, pos))
OneOfPeek == \E C \in CharSets : PeekOnCursor("OneOf::peek", C, OneOf_peek(C, cur.at))
OneInRangeParse == \E R \in Ranges : ParseOnBuffer("OneInRange::parse", R, OneInRange_parse(R, pos))
OneInRangePeek == \E R \in Ranges : PeekOnCursor("OneInRange::peek", R, OneInRange_peek(R, cur.at))

\* ---- the derived enum
EnumPeek ==
    /\ derived.state = "emitted"
    /\ PeekOnCursor("Enum::peek", decl.name, Enum_peek(derived, cur.at))

\* Enum::parse is entered
EnumParseCall ==
    /\ pc = "idle"
    /\ derived.state = "emitted"
    /\ pc' = "if"
    /\ vi' = 1
    /\ last' = [op |-> "Enum::parse", arg |-> decl.name, start |-> pos, end |-> pos,
                done |-> FALSE, peeks |-> <<>>, at |-> <<>>, ran |-> <<>>,
                ok |-> FALSE, out |-> None]
    /\ cur' = NoCursor
    /\ UNCHANGED <<input, pos, decl, derived>>

\* the next `if` of the chain evaluates its condition
EnumParseIf ==
    /\ pc = "if"
    /\ vi <= Len(derived.parse_impl.fn_impl)
    /\ LET r == EnumParse_peek(derived, vi, pos)
       IN  /\ pos' = r.buf
           /\ last' = [last EXCEPT !.peeks = Append(@, r.ret), !.end = r.buf]
           /\ IF r.ret THEN pc' = "then" /\ vi' = vi
              ELSE pc' = "if" /\ vi' = vi + 1
    /\ UNCHANGED <<input, cur, decl, derived>>

\* the body of the `if` whose condition held
EnumParseThen ==
    /\ pc = "then"
    /\ LET r == EnumParse_parse(derived, vi, pos)
       IN  /\ pos' = r.end
           /\ last' = [last EXCEPT !.done = TRUE, !.at = <<pos>>, !.end = r.end, !.ok = r.ok,
                                   !.ran = Append(@, derived.parse_impl.fn_impl[vi].parse),
                                   !.out = IF r.ok THEN r.val ELSE r.err]
    /\ pc' = "idle"
    /\ vi' = 0
    /\ UNCHANGED <<input, cur, decl, derived>>

\* the final else
EnumParseElse ==
    /\ pc = "if"
    /\ vi > Len(derived.parse_impl.fn_impl)
    /\ LET r == EnumParse_else(derived)
       IN  last' = [last EXCEPT !.done = TRUE, !.ok = r.ok, !.out = r.err]
    /\ pc' = "idle"
    /\ vi' = 0
    /\ UNCHANGED <<input, pos, cur, decl, derived>>

Next ==
    \/ Derive
    \/ BufNext
    \/ BufCursor
    \/ CursorNext
    \/ TagParse
    \/ TagPeek
    \/ OneOfParse
    \/ OneOfPeek
    \/ OneInRangeParse
    \/ OneInRangePeek
    \/ EnumPeek
    \/ EnumParseCall
    \/ EnumParseIf
    \/ EnumParseThen
    \/ EnumParseElse

Spec == Init /\ [][Next]_vars

\* ================================================================ claims
\* the next |T| tokens at read position s exist and equal T, |T| in chars
NextTokensAre(T, s) ==
    /\ s + Len(T) <= Len(input)
    /\ SubSeq(input, s + 1, s + Len(T)) = T

\* the tokens between two read positions
Between(s, e) == SubSeq(input, s + 1, e)

\* the peek of the i-th declared variant on a fresh cursor at s, and the
\* value the i-th declared variant builds from s
DeclPeek(i, s) == PeekFields(decl.variants[i].tys, 1, Cursor(s)).ret
DeclParse(i, s) ==
    ParseFields(<<IF decl.variants[i].fields = "Named" THEN "struct" ELSE "tuple",
                  decl.name, decl.variants[i].ident>>,
                decl.variants[i].tys, 1, s, <<>>)
Matching(s) == {i \in 1..Len(decl.variants) : DeclPeek(i, s)}
First(S) == CHOOSE i \in S : \A j \in S : i <= j

EnumParseDone == last.op = "Enum::parse" /\ last.done

\* the fields of the declared sum are of the text types of the library
LibraryTypes ==
    \A i \in 1..Len(decl.variants) : \A j \in 1..Len(decl.variants[i].tys) :
        decl.variants[i].tys[j].kind \in {"Tag", "OneOf", "OneInRange"}

\* C1: a finished parse of the derived sum returns the value built by the
\* earliest-declared variant whose peek on a fresh cursor returns true.
C1_FirstMatch ==
    EnumParseDone /\ Matching(last.start) # {} =>
        LET r == DeclParse(First(Matching(last.start)), last.start)
        IN  /\ LibraryTypes => last.ok
            /\ last.ok = r.ok
            /\ last.ok =>
                  /\ last.out = r.val
                  /\ last.out.variant = decl.variants[First(Matching(last.start))].ident

\* C1 witness: two variants accept the input and the first one was built
C1_Witness ==
    /\ EnumParseDone
    /\ Cardinality(Matching(last.start)) >= 2
    /\ 1 \in Matching(last.start)
    /\ last.ok
    /\ last.out.variant = decl.variants[1].ident

\* the peek of the type an operation of `last` belongs to, at its start
PeekOfLast ==
    CASE last.op = "Tag::parse" -> Tag_peek(last.arg, Cursor(last.start)).ret
      [] last.op = "OneOf::parse" -> OneOf_peek(last.arg, Cursor(last.start)).ret
      [] last.op = "OneInRange::parse" -> OneInRange_peek(last.arg, Cursor(last.start)).ret
      [] last.op = "Enum::parse" -> Enum_peek(derived, Cursor(last.start)).ret
      [] OTHER -> FALSE

\* C2: whenever peek on a cursor of the input returns true, parse on that
\* input returns a value without error (Tag, OneOf, OneInRange, derived sum).
C2_PeekImpliesParse ==
    /\ last.op \in {"Tag::parse", "OneOf::parse", "OneInRange::parse"} /\ PeekOfLast => last.ok
    /\ EnumParseDone /\ LibraryTypes /\ PeekOfLast => last.ok

\* C2 witness: a derived sum whose peek is true was parsed, and the variant
\* chosen has more than one field
C2_Witness ==
    /\ EnumParseDone
    /\ LibraryTypes
    /\ PeekOfLast
    /\ last.ok
    /\ Len(last.out.fields) >= 2

\* C3: parse of the derived sum returns the error "no variants of <name>
\* could be parsed" exactly when every variant's peek returns false.
C3_NoVariant ==
    EnumParseDone =>
        ( Matching(last.start) = {}
          <=> /\ ~last.ok
              /\ last.out = Eyre("no variants of {} could be parsed", <<decl.name>>) )

\* C3 witness: a non-empty input no variant peeks
C3_Witness ==
    /\ EnumParseDone
    /\ Matching(last.start) = {}
    /\ last.start < Len(input)
    /\ ~last.ok

\* C4: Tag<T>::peek returns true iff the next |T| tokens exist and equal T,
\* |T| being the number of characters of T.
C4_TagPeekIff ==
    last.op = "Tag::peek" => (last.ok <=> NextTokensAre(last.arg, last.start))

\* C5: a successful Tag<T>::parse advances the read position by exactly the
\* tokens of T, and Tag<T>::parse succeeds whenever the tokens to be read
\* begin with T, leaving what follows T.
C5_TagParseAdvances ==
    last.op = "Tag::parse" =>
        /\ last.ok => last.end = last.start + Len(last.arg)
        /\ NextTokensAre(last.arg, last.start) =>
              last.ok /\ pos = last.start + Len(last.arg)

\* C6: a successful Tag<T>::peek leaves the cursor immediately after T, and
\* Tag<T>::peek returns true whenever the tokens at the cursor begin with T,
\* so that successive peeks of T1..Tn over T1 ... Tn all return true.
C6_TagPeekAdvances ==
    last.op = "Tag::peek" =>
        /\ last.ok => cur.at = last.start + Len(last.arg)
        /\ NextTokensAre(last.arg, last.start) =>
              last.ok /\ cur.at = last.start + Len(last.arg)

\* C7: Tag<T>::parse returns an error whenever the next |T| tokens are not
\* exactly T (a token differs, or the input ends first), and the error is
\* failed to parse tag "<T>", found "<tokens read>".
C7_TagParseError ==
    last.op = "Tag::parse" /\ ~NextTokensAre(last.arg, last.start) =>
        /\ ~last.ok
        /\ last.out = Eyre("failed to parse tag {:?}, found {:?}",
                           <<DebugStr(last.arg), DebugStr(Between(last.start, last.end))>>)

\* C7 witness: the input ended after some, but not all, of the tokens of T
C7_Witness ==
    /\ last.op = "Tag::parse"
    /\ ~last.ok
    /\ last.start < last.end
    /\ last.end = Len(input)
    /\ last.end - last.start < Len(last.arg)
    /\ Between(last.start, last.end) = SubSeq(last.arg, 1, last.end - last.start)

\* C8: OneOf<CHARS>::parse reads exactly one token c of a non-empty input and
\* returns c if c is in CHARS, else the error "error parsing one of <CHARS>,
\* found <c>"; on empty input the error names CHARS and the end of input;
\* peek returns true exactly where parse succeeds.
C8_OneOf ==
    last.op = "OneOf::parse" =>
        /\ IF last.start < Len(input)
           THEN LET c == input[last.start + 1]
                IN  /\ last.end = last.start + 1
                    /\ IF c \in {last.arg[i] : i \in 1..Len(last.arg)}
                       THEN last.ok /\ OneOf_process(last.out) = c
                       ELSE /\ ~last.ok
                            /\ last.out = Eyre("error parsing one of {:?}, found {:?}",
                                               <<DebugStr(last.arg), DebugChar(c)>>)
           ELSE /\ ~last.ok
                /\ last.end = last.start
                /\ last.out = Eyre("error parsing one of {:?}, reached EOF",
                                   <<DebugStr(last.arg)>>)
        /\ OneOf_peek(last.arg, Cursor(last.start)).ret <=> last.ok

\* C8 witness: a token outside CHARS was read and reported
C8_Witness ==
    /\ last.op = "OneOf::parse"
    /\ last.start < Len(input)
    /\ ~last.ok
    /\ last.end = last.start + 1

\* C9: the variant peeks of the derived sum's parse consume nothing from the
\* buffer: while they run the read position is the one parse was called
\* with, the selected variant's parse starts there, and it is unchanged when
\* no variant matches.
C9_NonInterference ==
    last.op = "Enum::parse" =>
        /\ ~last.done => pos = last.start /\ last.end = last.start
        /\ last.done /\ last.at # <<>> => last.at = <<last.start>>
        /\ last.done /\ last.at = <<>> => pos = last.start

\* C9 witness: a variant was selected after an earlier variant's peek had
\* read tokens on its cursor and failed
C9_Witness ==
    /\ EnumParseDone
    /\ Len(last.peeks) >= 2
    /\ PeekFields(decl.variants[1].tys, 1, Cursor(last.start)).end > last.start
    /\ last.at = <<last.start>>
    /\ last.ok
    /\ last.end > last.start

\* a variant without fields: unit, empty tuple or empty named
NoFields(v) == v.fields = "Unit" \/ Len(v.tys) = 0
Derived == derived.state # "declared"

\* C10: if any variant of the declared sum has no fields, derivation fails
\* and nothing is emitted.
C10_RejectsEmpty ==
    Derived /\ (\E i \in 1..Len(decl.variants) : NoFields(decl.variants[i])) =>
        derived.state = "panicked"

\* C10 amended: if any variant is a unit variant, derivation fails and
\* nothing is emitted; a sum without unit variants is derived, also when a
\* tuple or named variant has no fields.
C10_RejectsUnit ==
    Derived =>
        ( (\E i \in 1..Len(decl.variants) : decl.variants[i].fields = "Unit")
          <=> derived.state = "panicked" )

\* C10 witness: the derive ran on a sum with a unit variant
C10_Witness ==
    /\ derived.state = "panicked"
    /\ \E i \in 1..Len(decl.variants) : decl.variants[i].fields = "Unit"

\* C11: peek of the derived sum returns true iff at least one variant's peek
\* returns true on a sub-cursor forked at the argument cursor's position,
\* and returns false, not an error, when all of them return false.
C11_EnumPeekIff ==
    last.op = "Enum::peek" =>
        /\ last.ok \in BOOLEAN
        /\ last.ok <=> Matching(last.start) # {}
        /\ last.out = None

\* C11 witness: the first variant's peek failed and a later variant's peek
\* made the sum's peek true
C11_Witness ==
    /\ last.op = "Enum::peek"
    /\ last.ok
    /\ 1 \notin Matching(last.start)
    /\ Matching(last.start) # {}

\* C13: the peek derived for a sum never advances the cursor it is given,
\* whether it returns true or false.
C13_EnumPeekFrame ==
    last.op = "Enum::peek" =>
        /\ cur.live
        /\ cur.at = last.start
        /\ last.end = last.start

\* C13 witness: the sum's peek returned true through a variant whose peek
\* read tokens on its sub-cursor
C13_Witness ==
    /\ last.op = "Enum::peek"
    /\ last.ok
    /\ cur.at = last.start
    /\ PeekFields(decl.variants[First(Matching(last.start))].tys, 1, Cursor(last.start)).end
          > last.start

\* C12: once a variant's peek has returned true during the sum's parse, that
\* variant's parse is the only one run; if it fails, the sum's parse returns
\* that variant's error, tries no later variant and does not return the
\* "no variants" error.
C12_CommitAfterPeek ==
    /\ pc = "then" =>
          /\ last.op = "Enum::parse"
          /\ Len(last.peeks) = vi
          /\ last.peeks[vi]
          /\ last.ran = <<>>
    /\ EnumParseDone /\ Matching(last.start) # {} =>
          LET k == First(Matching(last.start))
              r == DeclParse(k, last.start)
          IN  /\ last.ran = <<ParseIdent(decl.variants[k].ident)>>
              /\ Len(last.peeks) = k
              /\ ~r.ok =>
                    /\ ~last.ok
                    /\ last.out = r.err
                    /\ last.out # Eyre("no variants of {} could be parsed", <<decl.name>>)

\* C12 witness: the first variant's peek was true and its parse failed on an
\* input a later variant's peek accepts
C12_Witness ==
    /\ EnumParseDone
    /\ ~last.ok
    /\ Len(last.peeks) = 1
    /\ Cardinality(Matching(last.start)) >= 2
    /\ Len(last.ran) = 1

====
